---- MODULE Spec2Model ----
(***************************************************************************)
(* Model of geidav/lut-binary-search (src/main.cpp): the order-preserving  *)
(* key mapping MapValue<T> and the class SearchPod32<T, LUT_BITS> with its *)
(* look-up table (InitLut) and its three searches StdBinarySearch,         *)
(* MyBinarySearch and LutBinarySearch, which share BinarySearch.           *)
(*                                                                         *)
(* Values of the three 32-bit domains are held as their bit patterns, in a *)
(* word of KeyBits bits with the sign bit at position KeyBits-1; size_t    *)
(* and ssize_t are words of SizeBits bits.                                 *)
(***************************************************************************)
EXTENDS Integers, Sequences, FiniteSets, TLC

VARIABLES T,          \* the domain: template parameter T
          LUT_BITS,   \* template parameter LUT_BITS
          Vals,       \* SearchPod32::Vals, the sorted backing array
          Lut,        \* SearchPod32::Lut, a function on 0 .. 2^LUT_BITS
          LutEnd,     \* SearchPod32::LutEnd
          call,       \* the last search call and what it did
          mapped      \* the last pair of MapValue calls and their results

vars == <<T, LUT_BITS, Vals, Lut, LutEnd, call, mapped>>

-----------------------------------------------------------------------------
(* Bounds *)

KeyBits == 3      \* width of a value / mapped key (32 in the source)
SizeBits == 6     \* width of size_t / ssize_t (64 in the source)
MaxN == 3         \* longest backing array

KeyMod == 2^KeyBits
SignBit == 2^(KeyBits - 1)
SizeMod == 2^SizeBits

Patterns == 0 .. (KeyMod - 1)
Domains == {"uint32", "int32", "float"}

-----------------------------------------------------------------------------
(* Machine arithmetic *)

\* conversion to size_t: reduction modulo 2^SizeBits
ToSize(x) == x % SizeMod

\* conversion of a size_t to ssize_t: two's complement
ToSSize(u) == IF u >= SizeMod \div 2 THEN u - SizeMod ELSE u

RECURSIVE XorBits(_, _, _)
XorBits(a, b, n) ==
    IF n = 0 THEN 0
    ELSE (((a % 2) + (b % 2)) % 2) + 2 * XorBits(a \div 2, b \div 2, n - 1)

RECURSIVE OrBits(_, _, _)
OrBits(a, b, n) ==
    IF n = 0 THEN 0
    ELSE (IF (a % 2) = 1 \/ (b % 2) = 1 THEN 1 ELSE 0)
         + 2 * OrBits(a \div 2, b \div 2, n - 1)

\* a ^ b and a | b on words of KeyBits bits
Xor(a, b) == XorBits(a, b, KeyBits)
Or(a, b) == OrBits(a, b, KeyBits)

\* -(int32_t)x reinterpreted as an unsigned word
NegWord(x) == (KeyMod - x) % KeyMod

-----------------------------------------------------------------------------
(* The three domains and their order (operator< and operator== of T) *)

\* the int32_t with two's-complement pattern p
SignedOf(p) == IF p >= SignBit THEN p - KeyMod ELSE p

\* sign/magnitude reading of a float pattern: exponent and mantissa form the
\* magnitude, which orders the non-NaN floats of one sign
Magnitude(p) == p % SignBit
\* the pattern of +infinity: exponent all ones, mantissa (one bit here) zero
InfMagnitude == SignBit - 2
IsNaN(p) == Magnitude(p) > InfMagnitude
\* a number ordered as the float with pattern p is; -0.0 and +0.0 are equal
FloatOf(p) == IF p >= SignBit THEN 0 - Magnitude(p) ELSE Magnitude(p)

Values(t) == IF t = "float" THEN {p \in Patterns : ~IsNaN(p)} ELSE Patterns

Less(t, a, b) ==
    CASE t = "uint32" -> a < b
      [] t = "int32"  -> SignedOf(a) < SignedOf(b)
      [] t = "float"  -> FloatOf(a) < FloatOf(b)

Equal(t, a, b) ==
    CASE t = "uint32" -> a = b
      [] t = "int32"  -> a = b
      [] t = "float"  -> FloatOf(a) = FloatOf(b)

\* ascending-sorted under the domain order (what std::sort leaves)
Sorted(t, vs) == \A i \in 1 .. (Len(vs) - 1) : ~Less(t, vs[i + 1], vs[i])

SortedArrays(t) ==
    {vs \in UNION {[1 .. n -> Values(t)] : n \in 0 .. MaxN} : Sorted(t, vs)}

-----------------------------------------------------------------------------
(* MapValue<T> *)

MapValueUnsigned(val) == val

MapValueSigned(val) == Xor(val, SignBit)

\* MapValueFloat flipping the sign bit only
MapValueFloatSignOnly(val) == Xor(val, SignBit)

MapValueFloat(val) ==
    LET cv == val
        mask == Or(NegWord(cv \div SignBit), SignBit)
    IN  Xor(cv, mask)

MapValue(t, val) ==
    CASE t = "uint32" -> MapValueUnsigned(val)
      [] t = "int32"  -> MapValueSigned(val)
      [] t = "float"  -> MapValueFloat(val)

\* mappedKey >> (32 - LUT_BITS)
TopBits(m, bits) == m \div 2^(KeyBits - bits)

-----------------------------------------------------------------------------
(* SearchPod32::InitLut *)

\* for (j = from; j <= to; j++) lut[j] = v
FillRange(lut, from, to, v) ==
    [j \in DOMAIN lut |-> IF from <= j /\ j <= to THEN v ELSE lut[j]]

\* the loop over i: Vals[i+1] of the source is vs[i + 2] here (Sequences
\* count from 1)
RECURSIVE LutLoop(_, _, _, _, _, _, _)
LutLoop(t, bits, vs, i, lut, thresh, last) ==
    IF i < Len(vs) - 1
    THEN LET mappedNextVal == MapValue(t, vs[i + 2])
             nextThresh == TopBits(mappedNextVal, bits)
             lut1 == [lut EXCEPT ![thresh] = last]
             crossed == nextThresh > thresh
             last1 == IF crossed THEN i + 1 ELSE last
             lut2 == IF crossed
                     THEN FillRange(lut1, thresh + 1, nextThresh, last1)
                     ELSE lut1
         IN  LutLoop(t, bits, vs, i + 1, lut2, nextThresh, last1)
    ELSE [Lut |-> lut, thresh |-> thresh, last |-> last]

\* FillRemaining left out
FillRemainingSkipped(lut, thresh, last) == lut

\* set remaining thresholds that couldn't be found: i = thresh .. Lut.size()-2
FillRemaining(lut, thresh, last) ==
    FillRange(lut, thresh, Cardinality(DOMAIN lut) - 2, last)

InitLut(t, bits, vs) ==
    LET resized == [j \in 0 .. 2^bits |-> 0]
        r == LutLoop(t, bits, vs, 0, resized, 0, 0)
    IN  [Lut |-> FillRemaining(r.Lut, r.thresh, r.last), LutEnd |-> r.thresh]

-----------------------------------------------------------------------------
(* The state after construction *)

NoCall ==
    [op |-> "none", key |-> 0, lutIdx |-> 0, left |-> 0, right |-> 0,
     ret |-> 0, len |-> 0, reads |-> {}, ub |-> FALSE, status |-> "none"]

NoMapped == [done |-> FALSE, a |-> 0, b |-> 0, ma |-> 0, mb |-> 0]

Constructed(t, bits, vs) ==
    /\ T = t
    /\ LUT_BITS = bits
    /\ Vals = vs
    /\ Lut = InitLut(t, bits, vs).Lut
    /\ LutEnd = InitLut(t, bits, vs).LutEnd
    /\ call = NoCall
    /\ mapped = NoMapped

Init ==
    \E t \in Domains : \E bits \in 1 .. (KeyBits - 1) :
        \E vs \in SortedArrays(t) : Constructed(t, bits, vs)

N == Len(Vals)

-----------------------------------------------------------------------------
(* SearchPod32::BinarySearch *)

\* BinarySearchStep comparing with <= where the source compares with <
BinarySearchStepLessEq(len, first, key) ==
    LET half == len \div 2
        middle == ToSize(first + half)
    IN  IF ~Less(T, key, Vals[middle + 1])
        THEN [len |-> ToSize(len - half - 1), first |-> ToSize(middle + 1)]
        ELSE [len |-> half, first |-> first]

\* BinarySearchStep leaving the right half one element too long
BinarySearchStepLongRight(len, first, key) ==
    LET half == len \div 2
        middle == ToSize(first + half)
    IN  IF Less(T, Vals[middle + 1], key)
        THEN [len |-> ToSize(len - half), first |-> ToSize(middle + 1)]
        ELSE [len |-> half, first |-> first]

\* one iteration of the while loop, Vals[__middle] being an element
BinarySearchStep(len, first, key) ==
    LET half == len \div 2
        middle == ToSize(first + half)
    IN  IF Less(T, Vals[middle + 1], key)
        THEN [len |-> ToSize(len - half - 1), first |-> ToSize(middle + 1)]
        ELSE [len |-> half, first |-> first]

\* the while loop; it stops at the first read outside Vals (ub)
RECURSIVE BinarySearchLoop(_, _, _, _)
BinarySearchLoop(len, first, key, reads) ==
    IF len > 0
    THEN LET middle == ToSize(first + (len \div 2))
         IN  IF middle >= N
             THEN [len |-> len, first |-> first,
                   reads |-> reads \cup {middle}, ub |-> TRUE]
             ELSE LET s == BinarySearchStep(len, first, key)
                  IN  BinarySearchLoop(s.len, s.first, key, reads \cup {middle})
    ELSE [len |-> len, first |-> first, reads |-> reads, ub |-> FALSE]

\* what a call may do once it has read outside Vals: crash, or return anything
Undefined(r) ==
    {[ret |-> -1, len |-> r.len, reads |-> r.reads, ub |-> TRUE,
      status |-> "crashed"]}
    \cup {[ret |-> x, len |-> r.len, reads |-> r.reads, ub |-> TRUE,
           status |-> "returned"] : x \in (-1) .. (N - 1)}

\* the outcomes of BinarySearch(left, right, key): return __first
BinarySearch(left, right, key) ==
    LET r == BinarySearchLoop(ToSize(right - left), ToSize(left), key, {})
    IN  IF r.ub
        THEN Undefined(r)
        ELSE {[ret |-> ToSSize(r.first), len |-> r.len, reads |-> r.reads,
               ub |-> FALSE, status |-> "returned"]}

-----------------------------------------------------------------------------
(* The three searches *)

\* std::lower_bound(Vals.begin(), Vals.end(), key): the partition point
LowerBound(key) ==
    CHOOSE i \in 0 .. N :
        /\ i = N \/ ~Less(T, Vals[i + 1], key)
        /\ \A j \in 0 .. (i - 1) : Less(T, Vals[j + 1], key)

\* the value StdBinarySearch returns
StdResult(key) ==
    LET iter == LowerBound(key)
    IN  IF iter # N /\ Equal(T, Vals[iter + 1], key) THEN iter ELSE -1

\* reads records the element the final test *iter == key dereferences; the
\* probes of std::lower_bound itself lie inside Vals and are not recorded
StdBinarySearch(key) ==
    LET iter == LowerBound(key)
    IN  /\ call = NoCall
        /\ call' = [op |-> "StdBinarySearch", key |-> key, lutIdx |-> 0,
                    left |-> 0, right |-> N - 1,
                    ret |-> StdResult(key), len |-> 0,
                    reads |-> IF iter # N THEN {iter} ELSE {},
                    ub |-> FALSE, status |-> "returned"]
        /\ UNCHANGED <<T, LUT_BITS, Vals, Lut, LutEnd, mapped>>

MyBinarySearch(key) ==
    LET left == 0
        right == N - 1
    IN  /\ call = NoCall
        /\ \E o \in BinarySearch(left, right, key) :
              call' = [op |-> "MyBinarySearch", key |-> key, lutIdx |-> 0,
                       left |-> left, right |-> right,
                       ret |-> o.ret, len |-> o.len, reads |-> o.reads,
                       ub |-> o.ub, status |-> o.status]
        /\ UNCHANGED <<T, LUT_BITS, Vals, Lut, LutEnd, mapped>>

\* IntervalEnd with > where the source has >=
IntervalEndStrict(lutIdx) ==
    IF lutIdx + 1 > LutEnd THEN ToSize(N - 1) ELSE ToSize(Lut[lutIdx + 1] - 1)

\* the interval end of LUT entry lutIdx, a size_t
IntervalEnd(lutIdx) ==
    IF lutIdx + 1 >= LutEnd THEN ToSize(N - 1) ELSE ToSize(Lut[lutIdx + 1] - 1)

LutBinarySearch(key) ==
    LET mappedKey == MapValue(T, key)
        lutIdx == TopBits(mappedKey, LUT_BITS)
        start == Lut[lutIdx]
        end == IntervalEnd(lutIdx)
        left == ToSSize(start)
        right == ToSSize(end)
    IN  /\ call = NoCall
        /\ \E o \in BinarySearch(left, right, key) :
              call' = [op |-> "LutBinarySearch", key |-> key, lutIdx |-> lutIdx,
                       left |-> left, right |-> right,
                       ret |-> o.ret, len |-> o.len, reads |-> o.reads,
                       ub |-> o.ub, status |-> o.status]
        /\ UNCHANGED <<T, LUT_BITS, Vals, Lut, LutEnd, mapped>>

\* the caller takes the result (BenchmarkAlgo: idx = (s.*algoFunc)(keys[i]))
\* and is free to call again; the searches are const and single-threaded
Return ==
    /\ call # NoCall
    /\ call' = NoCall
    /\ UNCHANGED <<T, LUT_BITS, Vals, Lut, LutEnd, mapped>>

Next ==
    \/ \E key \in Values(T) : StdBinarySearch(key)
    \/ \E key \in Values(T) : MyBinarySearch(key)
    \/ \E key \in Values(T) : LutBinarySearch(key)
    \/ Return

Spec == Init /\ [][Next]_vars

-----------------------------------------------------------------------------
(* BinarySearch on its own, on every range 0 <= left <= right <= N - 1 *)

BinarySearchCall(left, right, key) ==
    /\ call = NoCall
    /\ \E o \in BinarySearch(left, right, key) :
           call' = [op |-> "BinarySearch", key |-> key, lutIdx |-> 0,
                    left |-> left, right |-> right,
                    ret |-> o.ret, len |-> o.len, reads |-> o.reads,
                    ub |-> o.ub, status |-> o.status]
    /\ UNCHANGED <<T, LUT_BITS, Vals, Lut, LutEnd, mapped>>

\* BinarySearch reads neither Lut nor LutEnd: one LUT_BITS is enough
InitBinarySearch ==
    \E t \in Domains : \E vs \in SortedArrays(t) : Constructed(t, 1, vs)

NextBinarySearch ==
    \/ \E key \in Values(T) :
           \E left \in 0 .. (N - 1) : \E right \in left .. (N - 1) :
               BinarySearchCall(left, right, key)
    \/ Return

SpecBinarySearch == InitBinarySearch /\ [][NextBinarySearch]_vars

-----------------------------------------------------------------------------
(* MapValue on its own: two values of one domain *)

MapValuePair(a, b) ==
    /\ mapped' = [done |-> TRUE, a |-> a, b |-> b,
                  ma |-> MapValue(T, a), mb |-> MapValue(T, b)]
    /\ UNCHANGED <<T, LUT_BITS, Vals, Lut, LutEnd, call>>

InitMap == \E t \in Domains : Constructed(t, 1, <<>>)

NextMap == \E a \in Values(T) : \E b \in Values(T) : MapValuePair(a, b)

SpecMap == InitMap /\ [][NextMap]_vars

-----------------------------------------------------------------------------
(* Vocabulary of the properties *)

\* Vals[i] of the source
At(i) == Vals[i + 1]

KeyOccurs(key) == \E i \in 0 .. (N - 1) : Equal(T, At(i), key)

\* i is the lowest index with Vals[i] == key
IsLowestIndex(i, key) ==
    /\ i \in 0 .. (N - 1)
    /\ Equal(T, At(i), key)
    /\ \A j \in 0 .. (i - 1) : ~Equal(T, At(j), key)

\* the bucket of a value: the top LUT_BITS bits of its mapped key
Bucket(v) == TopBits(MapValue(T, v), LUT_BITS)

Searches == {"StdBinarySearch", "MyBinarySearch", "LutBinarySearch"}

Returned(x) == call.status = "returned" /\ ~call.ub /\ call.ret = x

-----------------------------------------------------------------------------
(* C1 *)

\* C1: LutBinarySearch of a key that occurs in a non-empty sorted array
\* returns the lowest index holding the key, which is what StdBinarySearch
\* returns, wherever the key sits (also at Vals[0] in a bucket above 0).
C1_LutFindsLowestIndex ==
    (call.op = "LutBinarySearch" /\ N > 0 /\ KeyOccurs(call.key))
        => /\ call.status = "returned"
           /\ ~call.ub
           /\ IsLowestIndex(call.ret, call.key)
           /\ call.ret = StdResult(call.key)

-----------------------------------------------------------------------------
(* C2 *)

\* C2: MyBinarySearch of a key that occurs in a non-empty sorted array
\* returns the lowest index holding the key, equal to the result of
\* StdBinarySearch, also when the key occurs only at the last element.
C2_MyFindsLowestIndex ==
    (call.op = "MyBinarySearch" /\ N > 0 /\ KeyOccurs(call.key))
        => /\ call.status = "returned"
           /\ ~call.ub
           /\ IsLowestIndex(call.ret, call.key)
           /\ call.ret = StdResult(call.key)

\* MyBinarySearch has returned N - 1 for a key held by the last element only
C2_Witness ==
    /\ call.op = "MyBinarySearch"
    /\ N >= 3
    /\ Equal(T, At(N - 1), call.key)
    /\ \A j \in 0 .. (N - 2) : Less(T, At(j), call.key)
    /\ Returned(N - 1)

-----------------------------------------------------------------------------
(* C3 *)

\* C3: for a key that does not occur in the sorted array, each of the three
\* searches returns the not-found sentinel -1.
C3_AbsentKeyNotFound ==
    (call.op \in Searches /\ ~KeyOccurs(call.key)) => Returned(-1)

-----------------------------------------------------------------------------
(* C4 *)

\* C4: MapValue is strictly order-preserving: a < b in the domain order
\* (NaN excluded) implies MapValue(a) < MapValue(b) as unsigned words.
C4_MapValueOrderPreserving ==
    (mapped.done /\ Less(T, mapped.a, mapped.b)) => mapped.ma < mapped.mb

\* two negative floats a < b have been mapped, below every positive float
C4_WitnessFloat ==
    /\ mapped.done
    /\ T = "float"
    /\ mapped.a >= SignBit
    /\ mapped.b > SignBit
    /\ Less(T, mapped.a, mapped.b)
    /\ mapped.ma < mapped.mb
    /\ mapped.mb < SignBit

-----------------------------------------------------------------------------
(* C5 *)

\* C5: on an empty array every search returns -1 without reading an element.
C5_EmptyArrayNotFound ==
    (call.op \in Searches /\ N = 0) => (Returned(-1) /\ call.reads = {})

-----------------------------------------------------------------------------
(* C6 *)

\* C6 as stated: Lut[i] <= Lut[i+1] for every i in 0 .. 2^LUT_BITS - 1, the
\* trailing entry Lut[2^LUT_BITS] included.
C6_LutMonotoneWithTrailing ==
    \A i \in 0 .. (2^LUT_BITS - 1) : Lut[i] <= Lut[i + 1]

\* C6 amended: Lut[i] <= Lut[i+1] for every i in 0 .. 2^LUT_BITS - 2, that is
\* over the 2^LUT_BITS bucket entries, the trailing entry left out.
C6_LutMonotoneOverBuckets ==
    \A i \in 0 .. (2^LUT_BITS - 2) : Lut[i] <= Lut[i + 1]

\* a table built from an array that spreads over several buckets
C6_Witness ==
    /\ N >= 3
    /\ LUT_BITS >= 2
    /\ Lut[0] < Lut[1]
    /\ Lut[1] < Lut[2^LUT_BITS - 1]

-----------------------------------------------------------------------------
(* C7 *)

\* C7: on a non-empty array, for every bucket i <= LutEnd, Lut[i] is the
\* smallest index k whose element's bucket is >= i.
C7_LutEntryIsFirstIndex ==
    N > 0 =>
        \A i \in 0 .. LutEnd :
            /\ Lut[i] \in 0 .. (N - 1)
            /\ Bucket(At(Lut[i])) >= i
            /\ \A k \in 0 .. (Lut[i] - 1) : Bucket(At(k)) < i

-----------------------------------------------------------------------------
(* C8 *)

-----------------------------------------------------------------------------
(* C9 *)

InRange == 0 <= call.left /\ call.left <= call.right /\ call.right <= N - 1

\* p splits Vals[from .. to] into the elements < key and those >= key
IsLowerBound(p, from, to, key) ==
    /\ \A j \in from .. (p - 1) : Less(T, At(j), key)
    /\ \A j \in p .. to : ~Less(T, At(j), key)

\* C9 as stated: BinarySearch(left, right, key) ends with length 0 and first
\* the lower bound of key over Vals[left .. right], in left .. right + 1.
C9_LowerBoundInclusive ==
    (call.op = "BinarySearch" /\ InRange)
        => /\ call.len = 0
           /\ call.status = "returned"
           /\ call.ret \in call.left .. (call.right + 1)
           /\ IsLowerBound(call.ret, call.left, call.right, call.key)

\* C9 amended: BinarySearch(left, right, key) ends with length 0 and first
\* the lower bound of key over Vals[left .. right - 1], in left .. right;
\* Vals[right] is not compared.
C9_LowerBoundExclusive ==
    (call.op = "BinarySearch" /\ InRange)
        => /\ call.len = 0
           /\ ~call.ub
           /\ call.status = "returned"
           /\ call.ret \in call.left .. call.right
           /\ IsLowerBound(call.ret, call.left, call.right - 1, call.key)
           /\ call.reads \subseteq call.left .. (call.right - 1)

\* a search over several elements, all below the key, has returned right
C9_Witness ==
    /\ call.op = "BinarySearch"
    /\ call.left + 2 <= call.right
    /\ call.right <= N - 1
    /\ Less(T, At(call.right), call.key)
    /\ Returned(call.right)
    /\ call.len = 0

-----------------------------------------------------------------------------
(* C10 *)

\* C10: on a non-empty array LutBinarySearch searches an interval with
\* 0 <= start <= end <= N - 1 and reads Vals at indices in 0 .. N - 1 only.
C10_LutIntervalInBounds ==
    (call.op = "LutBinarySearch" /\ N > 0)
        => /\ 0 <= call.left
           /\ call.left <= call.right
           /\ call.right <= N - 1
           /\ call.reads \subseteq 0 .. (N - 1)
           /\ ~call.ub

====
